---- MODULE Spec2Model ----
(***************************************************************************)
(* Connection / configuration / broadcast layer of the hand-teleop backend *)
(* (projects/hand-teleop-system/render_backend.py).                        *)
(*                                                                         *)
(* Every coroutine runs on one asyncio event loop, so an action of this    *)
(* model is the code a coroutine runs between two suspension points        *)
(* (await websocket.accept(), await websocket.send_json(..),               *)
(* await websocket.receive_json()).  A send is issued by the action that   *)
(* reaches it: the transport keeps, per connection, the order in which     *)
(* the send calls were issued, so the message joins the client's stream    *)
(* at that point (or the send is marked as failing when the peer is gone). *)
(* The coroutine continues in a later action, when the send has completed. *)
(* Floats are scaled by 10 (workspace bounds) or by 100 (confidence).      *)
(***************************************************************************)
EXTENDS Integers, Sequences, FiniteSets, TLC

(* ---------------- bounds ---------------- *)
MaxConns == 2       \* streaming connections that are ever opened
MaxSets == 2        \* set_robot_config requests that are ever made
MaxMsgs == 1        \* frames the clients send, all connections together
MaxInFlight == 1    \* client messages not yet read by the handler
MaxClock == 2       \* readings of the clock that the results are stamped with

Conns == 1..MaxConns
Calls == 1..MaxSets
Clock == 1..MaxClock

(* ---------------- JSON values of the client messages ---------------- *)
\* A JSON value as far as the code looks at it: absent key, a string (empty
\* or not) or an object of which only the "image" member matters.
JAbsent == [t |-> "absent", s |-> "", image |-> "-"]
JStrEmpty == [t |-> "str", s |-> "", image |-> "-"]
JStrImg == [t |-> "str", s |-> "img", image |-> "-"]
JObjNoImage == [t |-> "obj", s |-> "", image |-> "absent"]
JObjEmptyImage == [t |-> "obj", s |-> "", image |-> "empty"]
JObjImage == [t |-> "obj", s |-> "", image |-> "img"]

\* An inbound text frame once decoded by receive_json: a JSON object with
\* a "type" member ("" when the key is missing) and a "data" member, or a
\* JSON document that is not an object.
Msg(json, type, data) == [json |-> json, type |-> type, data |-> data]

Inbound ==
  { Msg("object", "ping", JAbsent),
    Msg("object", "track", JObjImage),
    Msg("object", "track", JObjEmptyImage),
    Msg("object", "track", JObjNoImage),
    Msg("object", "track", JAbsent),
    Msg("object", "track", JStrImg),
    Msg("object", "image", JStrImg),
    Msg("object", "image", JStrEmpty),
    Msg("object", "image", JAbsent),
    Msg("object", "other", JAbsent),
    Msg("object", "", JAbsent),
    Msg("array", "", JAbsent) }

(* ---------------- configuration ---------------- *)
DefaultBounds == [x |-> <<-3, 3>>, y |-> <<-2, 4>>, z |-> <<1, 5>>]

RobotConfig(rt, wb) ==
  [robot_type |-> rt, end_effector |-> "gripper", workspace_bounds |-> wb]

DefaultConfig == RobotConfig("SO-101", DefaultBounds)

\* The bodies of POST /api/config/robot that reach the endpoint.  The model
\* class asks for workspace_bounds only that it maps strings to lists of
\* numbers (a body that does not is answered 422 and never reaches the
\* endpoint), so the second body (x inverted, y of three numbers, no z) is
\* accepted like the first.
Requests ==
  { RobotConfig("KOCH", DefaultBounds),
    RobotConfig("SO-100", [x |-> <<3, -3>>, y |-> <<-2, 4, 9>>]) }

\* GET /api/robots: id -> dof
RobotCatalog == [r \in {"SO-101", "SO-100", "KOCH"} |-> IF r = "KOCH" THEN 7 ELSE 6]

(* ---------------- frame processing ---------------- *)
\* The dict handed to process_hand_tracking: whether it is a mapping at all
\* and what data.get("image", "") yields on it.
Frame(mapping, image) == [mapping |-> mapping, image |-> image]

\* Variant: the test is for the presence of the key, "image" in data
HandDetectedIfPresent(frame) == frame.image # "absent"

\* data.get("image", "") != ""
HandDetected(frame) == frame.image \notin {"absent", "empty"}

\* process_hand_tracking: the response, or the HTTPException(500) that the
\* except clause raises when data.get fails on a value that is no mapping.
\* now is what datetime.now() reads when the response is built.
ProcessHandTracking(frame, cfg, now) ==
  IF ~frame.mapping
    THEN [raised |-> TRUE, hand_detected |-> FALSE, joint_angles |-> <<>>,
          in_workspace |-> FALSE, confidence |-> 0, robot_type |-> "",
          timestamp |-> 0]
    ELSE IF HandDetected(frame)
      THEN [raised |-> FALSE, hand_detected |-> TRUE,
            joint_angles |-> <<452, -305, 601, 150, -450, 900>>,
            in_workspace |-> TRUE, confidence |-> 94,
            robot_type |-> cfg.robot_type, timestamp |-> now]
      ELSE [raised |-> FALSE, hand_detected |-> FALSE,
            joint_angles |-> <<0, 0, 0, 0, 0, 0>>,
            in_workspace |-> FALSE, confidence |-> 0,
            robot_type |-> cfg.robot_type, timestamp |-> now]

\* track branch: data.get("data", {})
TrackFrame(m) ==
  IF m.data.t = "absent" THEN Frame(TRUE, "absent")
  ELSE IF m.data.t = "obj" THEN Frame(TRUE, m.data.image)
  ELSE Frame(FALSE, "-")

\* image branch: tracking_data = {"image": data.get("data", ""), ...}
ImageFrame(m) ==
  IF m.data.t = "absent" THEN Frame(TRUE, "empty")
  ELSE IF m.data.t = "str" /\ m.data.s = "" THEN Frame(TRUE, "empty")
  ELSE Frame(TRUE, "value")

(* ---------------- messages to the clients ---------------- *)
NoResult == ProcessHandTracking(Frame(FALSE, "-"), DefaultConfig, 0)

Out(type, cfg, result) == [type |-> type, config |-> cfg, result |-> result]

ConfigMsg(cfg) == Out("config", cfg, NoResult)
ConfigUpdateMsg(cfg) == Out("config_update", cfg, NoResult)
PongMsg == Out("pong", DefaultConfig, NoResult)
TrackingResultMsg(res) == Out("tracking_result", DefaultConfig, res)

(* ---------------- state ---------------- *)
VARIABLES
  active_sessions,        \* dict of sessions (never written by this file)
  websocket_connections,  \* list of registered connections
  current_robot_config,   \* the configuration store
  pc,                     \* position of each connection handler
  alive,                  \* whether the peer of each connection is there
  stalled,                \* connections whose peer has stopped reading
  send_ok,                \* outcome of the send a handler is suspended on
  inq,                    \* client frames not yet read by the handler
  nsent,                  \* frames the clients have sent
  received,               \* messages each client has received, in order
  invocations,            \* process_hand_tracking calls made by each handler
  calls,                  \* the set_robot_config requests
  frame_read,             \* the frame receive_json returned in the last step, if any
  http_track,             \* the POST /api/track exchange of the last step, if any
  close_step              \* the finally block that ran in the last step, if any

vars == <<active_sessions, websocket_connections, current_robot_config, pc,
          alive, stalled, send_ok, inq, nsent, received, invocations, calls,
          frame_read, http_track, close_step>>

\* A request not yet made.  Besides the locals of the two coroutines
\* (message, the list iterator idx, the connection conn being sent to and
\* the outcome ok of that send, active_connections) a request records the
\* configuration it submitted, the registry at the start of its broadcast
\* (snap), the connections on which its send raised (failed) and the
\* robot_config it returned (result).
NoCall ==
  [pc |-> "idle", config |-> DefaultConfig,
   message |-> ConfigUpdateMsg(DefaultConfig), idx |-> 0, conn |-> 0,
   ok |-> FALSE, active |-> <<>>, snap |-> <<>>, failed |-> {},
   result |-> DefaultConfig]

NoRead == [conn |-> 0, msg |-> Msg("object", "", JAbsent)]

NoExchange == [called |-> FALSE, frame |-> Frame(TRUE, "absent"), response |-> NoResult]

\* No finally block ran.  Of one that did: the connection, and whether the
\* connection was in websocket_connections when the block looked for it.
NoClose == [conn |-> 0, listed |-> FALSE]

Init ==
  /\ active_sessions = <<>>
  /\ websocket_connections = <<>>
  /\ current_robot_config = DefaultConfig
  /\ pc = [c \in Conns |-> "accept"]
  /\ alive = [c \in Conns |-> TRUE]
  /\ stalled = {}
  /\ send_ok = [c \in Conns |-> FALSE]
  /\ inq = [c \in Conns |-> <<>>]
  /\ nsent = 0
  /\ received = [c \in Conns |-> <<>>]
  /\ invocations = [c \in Conns |-> 0]
  /\ calls = [s \in Calls |-> NoCall]
  /\ frame_read = NoRead
  /\ http_track = NoExchange
  /\ close_step = NoClose

(* ---------------- helpers ---------------- *)
Range(list) == {list[i] : i \in 1..Len(list)}

Last(list) == list[Len(list)]

InList(c, list) == \E i \in 1..Len(list) : list[i] = c

\* list.remove(x): drops the first occurrence
Remove(list, c) ==
  LET i == CHOOSE k \in 1..Len(list) : list[k] = c /\ \A j \in 1..(k-1) : list[j] # c
  IN SubSeq(list, 1, i-1) \o SubSeq(list, i+1, Len(list))

\* Variant: a handle that is not found is taken to be the last one
UnregisterOrPop(list, c) ==
  IF InList(c, list) THEN Remove(list, c) ELSE SubSeq(list, 1, Len(list) - 1)

\* finally: if websocket in websocket_connections: remove
Unregister(list, c) == IF InList(c, list) THEN Remove(list, c) ELSE list

\* send_json(message) on connection c as the transport sees it: the message
\* joins the client's stream unless the peer is gone, and then the call
\* raises, or the peer has stopped reading, and then the call stays pending
Deliver(rcv, c, m) ==
  IF alive[c] /\ c \notin stalled THEN [rcv EXCEPT ![c] = Append(@, m)] ELSE rcv

\* The states of the connection handler state machine
IsOpen(p) == p \in {"send_config", "receive", "send_reply"}
Open(c) == IsOpen(pc[c])
Closed(c) == pc[c] = "closed"

(* ---------------- the clients ---------------- *)
\* The client of connection c writes one text frame.  Of a frame in flight
\* the model keeps whether it is a ping; what else the frame holds is drawn
\* when the handler reads it.
ClientSend(c, ping) ==
  /\ pc[c] \notin {"accept", "closed"}
  /\ alive[c]
  /\ nsent < MaxMsgs
  /\ Len(inq[c]) < MaxInFlight
  /\ inq' = [inq EXCEPT ![c] = Append(@, ping)]
  /\ nsent' = nsent + 1
  /\ UNCHANGED <<active_sessions, stalled, websocket_connections, current_robot_config,
                 pc, alive, send_ok, received, invocations, calls>>
  /\ frame_read' = NoRead
  /\ http_track' = NoExchange
  /\ close_step' = NoClose

\* The peer of connection c goes away (client close or transport failure):
\* from now on sends to c raise and receive_json raises once the frames
\* that arrived before are read.  (A peer that has stopped reading is one
\* whose connection stays up.)
Drop(c) ==
  /\ alive[c]
  /\ pc[c] # "closed"
  /\ c \notin stalled
  /\ alive' = [alive EXCEPT ![c] = FALSE]
  /\ UNCHANGED <<active_sessions, stalled, websocket_connections, current_robot_config,
                 pc, send_ok, inq, nsent, received, invocations, calls>>
  /\ frame_read' = NoRead
  /\ http_track' = NoExchange
  /\ close_step' = NoClose

\* The peer of connection c stops reading and its connection stays up: the
\* send buffers fill, and a send_json on c neither returns nor raises.
Stall(c) ==
  /\ alive[c]
  /\ pc[c] # "closed"
  /\ c \notin stalled
  /\ stalled' = stalled \cup {c}
  /\ UNCHANGED <<active_sessions, websocket_connections, current_robot_config,
                 pc, alive, send_ok, inq, nsent, received, invocations, calls>>
  /\ frame_read' = NoRead
  /\ http_track' = NoExchange
  /\ close_step' = NoClose

(* ---------------- websocket_tracking ---------------- *)
\* except ... / finally: the handler leaves its loop, unregisters itself if
\* it is still listed, and returns, which closes the socket.
HandlerExit(c) ==
  /\ websocket_connections' = Unregister(websocket_connections, c)
  /\ pc' = [pc EXCEPT ![c] = "closed"]
  /\ alive' = [alive EXCEPT ![c] = FALSE]
  /\ inq' = [inq EXCEPT ![c] = <<>>]
  /\ close_step' = [conn |-> c, listed |-> InList(c, websocket_connections)]

\* Variant: the connection is registered in one step and the initial
\* configuration is sent in a later one
AcceptRegisterFirst(c) ==
  /\ pc[c] = "accept"
  /\ \A d \in Conns : d < c => pc[d] # "accept"
  /\ websocket_connections' = Append(websocket_connections, c)
  /\ send_ok' = [send_ok EXCEPT ![c] = alive[c]]
  /\ pc' = [pc EXCEPT ![c] = "send_config"]
  /\ UNCHANGED <<active_sessions, stalled, current_robot_config, alive, inq, nsent,
                 received, invocations, calls>>
  /\ frame_read' = NoRead
  /\ http_track' = NoExchange
  /\ close_step' = NoClose

\* await websocket.accept() has returned: register, then issue the send of
\* the initial configuration.  (A handshake that fails raises before the
\* try block: such a connection is one that stays in "accept".)
\* Connections are numbered in the order in which they are accepted.
Accept(c) ==
  /\ pc[c] = "accept"
  /\ \A d \in Conns : d < c => pc[d] # "accept"
  /\ websocket_connections' = Append(websocket_connections, c)
  /\ received' = Deliver(received, c, ConfigMsg(current_robot_config))
  /\ send_ok' = [send_ok EXCEPT ![c] = alive[c]]
  /\ pc' = [pc EXCEPT ![c] = "send_config"]
  /\ UNCHANGED <<active_sessions, stalled, current_robot_config, alive, inq, nsent,
                 invocations, calls>>
  /\ frame_read' = NoRead
  /\ http_track' = NoExchange
  /\ close_step' = NoClose

\* The send the handler was suspended on (initial config, pong or
\* tracking_result) has completed: go on to receive_json, or take the
\* exception to the finally block.  (No completion while the peer does not
\* read: the handler stays suspended.)
SendDone(c) ==
  /\ pc[c] \in {"send_config", "send_reply"}
  /\ c \notin stalled
  /\ IF send_ok[c]
       THEN /\ pc' = [pc EXCEPT ![c] = "receive"]
            /\ close_step' = NoClose
            /\ UNCHANGED <<websocket_connections, alive, inq>>
       ELSE HandlerExit(c)
  /\ UNCHANGED <<active_sessions, stalled, current_robot_config, send_ok, nsent,
                 received, invocations, calls>>
  /\ frame_read' = NoRead
  /\ http_track' = NoExchange

\* The reply the handler sends for a decoded message (issued in the step
\* that reads the message: there is no suspension in between).
Reply(c, m) ==
  /\ received' = Deliver(received, c, m)
  /\ send_ok' = [send_ok EXCEPT ![c] = alive[c]]
  /\ pc' = [pc EXCEPT ![c] = "send_reply"]
  /\ inq' = [inq EXCEPT ![c] = Tail(@)]
  /\ close_step' = NoClose
  /\ UNCHANGED <<websocket_connections, alive>>

IsPing(m) == m.json = "object" /\ m.type = "ping"

\* Variant: the ping branch is missing, a ping falls through the chain
DispatchPingUnmatched(m) ==
  IF m.json # "object" THEN "raise"
  ELSE IF m.type = "track" THEN "track"
  ELSE IF m.type = "image" THEN "image"
  ELSE "none"

\* The branch that the if/elif chain takes on the decoded frame: data.get
\* raises on a document that is no object, and a type that matches no
\* branch falls through to the next receive_json.
Dispatch(m) ==
  IF m.json # "object" THEN "raise"
  ELSE IF m.type = "ping" THEN "ping"
  ELSE IF m.type = "track" THEN "track"
  ELSE IF m.type = "image" THEN "image"
  ELSE "none"

\* receive_json() returns the next frame, m; the if/elif chain dispatches
\* it.  now is the clock reading if process_hand_tracking is called.
Receive(c, m, now) ==
  /\ pc[c] = "receive"
  /\ inq[c] # <<>>
  /\ IsPing(m) <=> Head(inq[c])
  /\ LET frame == IF Dispatch(m) = "track" THEN TrackFrame(m) ELSE ImageFrame(m)
         result == ProcessHandTracking(frame, current_robot_config, now)
     IN
     IF Dispatch(m) = "raise"
       THEN \* AttributeError: except Exception, finally
            /\ HandlerExit(c)
            /\ UNCHANGED <<send_ok, received, invocations>>
     ELSE IF Dispatch(m) = "ping"
       THEN /\ Reply(c, PongMsg)
            /\ UNCHANGED invocations
     ELSE IF Dispatch(m) \in {"track", "image"}
       THEN /\ invocations' = [invocations EXCEPT ![c] = @ + 1]
            /\ IF result.raised
                 THEN \* HTTPException out of process_hand_tracking
                      /\ HandlerExit(c)
                      /\ UNCHANGED <<send_ok, received>>
                 ELSE Reply(c, TrackingResultMsg(result))
     ELSE \* no branch matches: back to receive_json
          /\ inq' = [inq EXCEPT ![c] = Tail(@)]
          /\ close_step' = NoClose
          /\ UNCHANGED <<websocket_connections, pc, alive, send_ok, received,
                         invocations>>
  /\ frame_read' = [conn |-> c, msg |-> m]
  /\ UNCHANGED <<active_sessions, stalled, current_robot_config, nsent, calls>>
  /\ http_track' = NoExchange

\* receive_json() raises WebSocketDisconnect: the peer is gone and nothing
\* is left to read.
Disconnect(c) ==
  /\ pc[c] = "receive"
  /\ inq[c] = <<>>
  /\ ~alive[c]
  /\ HandlerExit(c)
  /\ UNCHANGED <<active_sessions, stalled, current_robot_config, send_ok, nsent,
                 received, invocations, calls>>
  /\ frame_read' = NoRead
  /\ http_track' = NoExchange

(* ---------------- set_robot_config / broadcast_config_update ---------------- *)
\* Variant: the stored object is updated in place and its workspace_bounds
\* are left as they were
StoreRobotTypeOnly(stored, config) ==
  [stored EXCEPT !.robot_type = config.robot_type,
                 !.end_effector = config.end_effector]

\* current_robot_config = config: the global is bound to the request's
\* object, whatever it held
Store(stored, config) == config

\* POST /api/config/robot with the given configuration: the store is
\* replaced and broadcast_config_update runs up to its first suspension: it
\* returns at once on an empty registry, else it builds the message and
\* issues the send to the first connection of the list.
\* Requests are numbered in the order in which they arrive.
SetRobotConfig(s, config) ==
  /\ calls[s].pc = "idle"
  /\ \A r \in Calls : r < s => calls[r].pc # "idle"
  /\ current_robot_config' = Store(current_robot_config, config)
  /\ IF websocket_connections = <<>>
       THEN /\ calls' = [calls EXCEPT ![s] =
                  [@ EXCEPT !.pc = "done", !.config = config,
                            !.result = config]]
            /\ UNCHANGED received
       ELSE LET conn == websocket_connections[1]
                message == ConfigUpdateMsg(current_robot_config')
            IN /\ received' = Deliver(received, conn, message)
               /\ calls' = [calls EXCEPT ![s] =
                    [@ EXCEPT !.pc = "sending", !.config = config,
                              !.message = message, !.idx = 1,
                              !.conn = conn, !.ok = alive[conn],
                              !.active = <<>>,
                              !.snap = websocket_connections]]
  /\ UNCHANGED <<active_sessions, stalled, websocket_connections, pc, alive, send_ok,
                 inq, nsent, invocations>>
  /\ frame_read' = NoRead
  /\ http_track' = NoExchange
  /\ close_step' = NoClose

\* Variant: the message is built inside the loop, from the store
MessageFromStore(call) == ConfigUpdateMsg(current_robot_config)

\* The message that the loop sends: the local built before the loop
MessageSent(call) == call.message

\* try: await connection.send_json(message); active_connections.append(..)
\* except: pass
KeepActive(call) ==
  IF call.ok THEN Append(call.active, call.conn) ELSE call.active

\* The send the broadcast was suspended on has completed or raised (it does
\* neither while the peer of that connection does not read): keep
\* the connection if it completed, then take the next element of the live
\* list (the list iterator is an index into websocket_connections), or,
\* past its end, rewrite the list and return from set_robot_config with
\* the configuration then in the store.
BroadcastStep(s) ==
  /\ calls[s].pc = "sending"
  /\ calls[s].conn \notin stalled
  /\ LET call == calls[s]
         active == KeepActive(call)
         failed == IF call.ok THEN call.failed ELSE call.failed \cup {call.conn}
     IN
     IF call.idx < Len(websocket_connections)
       THEN LET conn == websocket_connections[call.idx + 1]
            IN /\ received' = Deliver(received, conn, MessageSent(call))
               /\ calls' = [calls EXCEPT ![s] =
                    [@ EXCEPT !.idx = @ + 1, !.conn = conn, !.ok = alive[conn],
                              !.active = active, !.failed = failed]]
               /\ UNCHANGED websocket_connections
       ELSE /\ websocket_connections' = active
            /\ calls' = [calls EXCEPT ![s] =
                 [@ EXCEPT !.pc = "done", !.idx = 0, !.conn = 0, !.ok = FALSE,
                           !.active = <<>>, !.failed = failed,
                           !.result = current_robot_config]]
            /\ UNCHANGED received
  /\ UNCHANGED <<active_sessions, stalled, current_robot_config, pc, alive, send_ok,
                 inq, nsent, invocations>>
  /\ frame_read' = NoRead
  /\ http_track' = NoExchange
  /\ close_step' = NoClose

(* ---------------- POST /api/track ---------------- *)
\* The body is a JSON object (anything else is answered 422); only its
\* "image" member is looked at.
TrackBodies == {Frame(TRUE, "absent"), Frame(TRUE, "empty"), Frame(TRUE, "img")}

\* Variant: the one-shot call creates the session it is tracking for
TrackCreatesSession(frame, now) ==
  /\ http_track' = [called |-> TRUE, frame |-> frame,
                    response |-> ProcessHandTracking(frame, current_robot_config, now)]
  /\ active_sessions' = <<"default">>
  /\ frame_read' = NoRead
  /\ close_step' = NoClose
  /\ UNCHANGED <<stalled, websocket_connections, current_robot_config,
                 pc, alive, send_ok, inq, nsent, received, invocations, calls>>

Track(frame, now) ==
  /\ http_track' = [called |-> TRUE, frame |-> frame,
                    response |-> ProcessHandTracking(frame, current_robot_config, now)]
  /\ frame_read' = NoRead
  /\ close_step' = NoClose
  /\ UNCHANGED <<active_sessions, stalled, websocket_connections, current_robot_config,
                 pc, alive, send_ok, inq, nsent, received, invocations, calls>>

(* ---------------- specification ---------------- *)
Next ==
  \/ \E c \in Conns : \E ping \in BOOLEAN : ClientSend(c, ping)
  \/ \E c \in Conns : Drop(c)
  \/ \E c \in Conns : Accept(c)
  \/ \E c \in Conns : SendDone(c)
  \/ \E c \in Conns : \E m \in Inbound : \E now \in Clock : Receive(c, m, now)
  \/ \E c \in Conns : Disconnect(c)
  \/ \E s \in Calls : \E config \in Requests : SetRobotConfig(s, config)
  \/ \E s \in Calls : BroadcastStep(s)

\* The streaming endpoint and the configuration endpoint
Spec == Init /\ [][Next]_vars

\* The frame-processing paths, one-shot and streaming, while the
\* configuration changes, on connections whose peers stay
NextTrack ==
  \/ \E frame \in TrackBodies : \E now \in Clock : Track(frame, now)
  \/ \E c \in Conns : \E ping \in BOOLEAN : ClientSend(c, ping)
  \/ \E c \in Conns : Accept(c)
  \/ \E c \in Conns : SendDone(c)
  \/ \E c \in Conns : \E m \in Inbound : \E now \in Clock : Receive(c, m, now)
  \/ \E s \in Calls : \E config \in Requests : SetRobotConfig(s, config)
  \/ \E s \in Calls : BroadcastStep(s)

SpecTrack == Init /\ [][NextTrack]_vars

\* The configuration endpoint and its fan-out to connections of which some
\* have a peer that stops reading
NextFanOut ==
  \/ \E c \in Conns : Stall(c)
  \/ \E c \in Conns : Accept(c)
  \/ \E c \in Conns : SendDone(c)
  \/ \E s \in Calls : \E config \in Requests : SetRobotConfig(s, config)
  \/ \E s \in Calls : BroadcastStep(s)

\* The event loop resumes every coroutine whose awaited send has completed
\* or raised
Resumption ==
  /\ \A c \in Conns : WF_vars(SendDone(c))
  /\ \A s \in Calls : WF_vars(BroadcastStep(s))

SpecFanOut == Init /\ [][NextFanOut]_vars /\ Resumption

(* ======================= properties ======================= *)

\* The step in which the broadcast of request s returns
BroadcastReturns(s) == calls[s].pc = "sending" /\ calls'[s].pc = "done"

\* C1 (broadcast isolation): when a broadcast over a registry of N
\* connections returns, every connection to which the delivery failed is out
\* of websocket_connections, and every other connection of that registry
\* that is healthy (handler open, peer there) has been sent the
\* config_update message and is still in websocket_connections.
C1_BroadcastIsolation ==
  [][\A s \in Calls :
       BroadcastReturns(s) =>
         /\ \A k \in calls'[s].failed : ~InList(k, websocket_connections')
         /\ \A c \in Range(calls[s].snap) \ calls'[s].failed :
              (Open(c) /\ alive[c]) =>
                /\ InList(c, websocket_connections')
                /\ InList(calls[s].message, received'[c])]_vars

\* C2 (no dangling subscriber): a connection whose handler has reached
\* CLOSED is not in websocket_connections.
C2_NoDanglingSubscriber ==
  \A c \in Conns : Closed(c) => ~InList(c, websocket_connections)

\* C3 (config fan-out reaches every subscriber): once a set_robot_config
\* call has returned, every connection that was registered when the call
\* was made and is still open with a live peer has received the
\* config_update message carrying that call's configuration.
C3_FanOutReachesEverySubscriber ==
  \A s \in Calls :
    calls[s].pc = "done" =>
      \A c \in Range(calls[s].snap) :
        (Open(c) /\ alive[c]) =>
          InList(ConfigUpdateMsg(calls[s].config), received[c])

\* Section 4.1 of the specification: exactly the axes x, y, z, each a
\* two-element [min, max] with min <= max
ValidBounds(wb) ==
  /\ DOMAIN wb = {"x", "y", "z"}
  /\ \A a \in DOMAIN wb : Len(wb[a]) = 2 /\ wb[a][1] <= wb[a][2]

\* C4 (configuration validation): a set_robot_config request whose
\* workspace_bounds is not valid is rejected: it never becomes the stored
\* configuration and no config_update message carries it.
C4_ConfigurationValidation ==
  /\ ValidBounds(current_robot_config.workspace_bounds)
  /\ \A c \in Conns : \A i \in 1..Len(received[c]) :
       received[c][i].type = "config_update" =>
         ValidBounds(received[c][i].config.workspace_bounds)

\* C5 (config-first on connect): the step that registers a connection puts
\* the config message carrying the configuration then in the store at the
\* head of the client's stream (nothing at all if the peer is already
\* gone), the head never changes afterwards, and so the first message of
\* every stream is a config message.
C5_ConfigFirst ==
  /\ [](\A c \in Conns :
          received[c] # <<>> => /\ pc[c] # "accept"
                                /\ received[c][1].type = "config")
  /\ [][\A c \in Conns :
          /\ (pc[c] = "accept" /\ pc'[c] # "accept") =>
               /\ InList(c, websocket_connections')
               /\ received[c] = <<>>
               /\ received'[c] = IF alive[c]
                                   THEN <<ConfigMsg(current_robot_config)>>
                                   ELSE <<>>
          /\ received[c] # <<>> =>
               /\ received'[c] # <<>>
               /\ received'[c][1] = received[c][1]]_vars

\* A broadcast has reached a connection whose handler is still suspended
\* on its initial send, and the config message is the first all the same.
C5_Witness ==
  \E c \in Conns :
    /\ pc[c] = "send_config"
    /\ Len(received[c]) >= 2
    /\ received[c][1].type = "config"
    /\ received[c][2].type = "config_update"

\* The next unread frame of connection c is a ping
PingPending(c) == Open(c) /\ inq[c] # <<>> /\ Head(inq[c])

\* The step in which the handler of c reads its next frame
FrameRead(c) == pc[c] = "receive" /\ inq[c] # <<>> /\ inq'[c] = Tail(inq[c])

\* C6 (ping/pong adjacency), as claimed: from the moment the client's ping
\* is the next unread frame, the next message the client receives is pong,
\* and no step invokes the frame processor for that connection.
C6_PingPongAdjacency ==
  [][\A c \in Conns :
       PingPending(c) =>
         /\ invocations'[c] = invocations[c]
         /\ received'[c] # received[c] =>
              received'[c] = Append(received[c], PongMsg)]_vars

\* C6, amended: while the client's ping is the next unread frame the client
\* receives nothing but config_update broadcasts; the step that reads the
\* ping replies pong (the peer being there) and nothing else; and no step
\* invokes the frame processor for that connection.
C6_PingPongAmended ==
  [][\A c \in Conns :
       PingPending(c) =>
         /\ invocations'[c] = invocations[c]
         /\ IF FrameRead(c)
              THEN received'[c] = IF alive[c]
                                    THEN Append(received[c], PongMsg)
                                    ELSE received[c]
              ELSE \/ received'[c] = received[c]
                   \/ /\ Len(received'[c]) = Len(received[c]) + 1
                      /\ SubSeq(received'[c], 1, Len(received[c])) = received[c]
                      /\ Last(received'[c]).type = "config_update"]_vars

\* A ping was answered on a connection that had a config_update before the
\* pong, without any processor invocation.
C6_Witness ==
  \E c \in Conns :
    /\ frame_read.conn = c
    /\ IsPing(frame_read.msg)
    /\ Len(received[c]) >= 3
    /\ Last(received[c]) = PongMsg
    /\ received[c][Len(received[c]) - 1].type = "config_update"
    /\ invocations[c] = 0

\* The handler of c has read the frame m in this step
Reads(c, m) == frame_read'.conn = c /\ frame_read'.msg = m /\ FrameRead(c)

\* C7 (bad frame never drops the connection): reading a track or image
\* frame, whatever its payload, on a connection whose peer is there makes
\* the handler reply exactly one tracking_result and leaves the connection
\* open and, if it was registered, registered.
C7_BadFrameNeverDrops ==
  [][\A c \in Conns : \A m \in Inbound :
       (Reads(c, m) /\ m.json = "object" /\ m.type \in {"track", "image"}
          /\ alive[c]) =>
         /\ Len(received'[c]) = Len(received[c]) + 1
         /\ Last(received'[c]).type = "tracking_result"
         /\ ~Last(received'[c]).result.raised
         /\ IsOpen(pc'[c])
         /\ InList(c, websocket_connections) =>
              InList(c, websocket_connections')]_vars

\* C8 (unrecognized input is ignored): reading a frame that is no ping,
\* track or image message (unknown type, no type, no JSON object) produces
\* no reply and leaves the handler at its next receive, the connection
\* registered if it was.
C8_UnrecognizedIgnored ==
  [][\A c \in Conns : \A m \in Inbound :
       (Reads(c, m)
          /\ (m.json # "object" \/ m.type \notin {"ping", "track", "image"})) =>
         /\ received'[c] = received[c]
         /\ pc'[c] = "receive"
         /\ InList(c, websocket_connections) =>
              InList(c, websocket_connections')]_vars

\* The canonical "no hand detected" result
NotDetected(r) ==
  /\ ~r.raised
  /\ ~r.hand_detected
  /\ r.joint_angles # <<>>
  /\ \A i \in 1..Len(r.joint_angles) : r.joint_angles[i] = 0
  /\ r.confidence = 0
  /\ ~r.in_workspace

\* A track or image frame whose image is the empty string or is not there
EmptyOrAbsentImage(m) ==
  /\ m.json = "object"
  /\ \/ /\ m.type = "track"
        /\ \/ m.data = JAbsent
           \/ m.data = JObjNoImage
           \/ m.data = JObjEmptyImage
     \/ /\ m.type = "image"
        /\ m.data \in {JAbsent, JStrEmpty}

\* C9 (no-detection default): POST /api/track on a body whose image is
\* empty or absent answers the canonical "not detected" result, and so does
\* the tracking_result that the streaming handler sends for a track or
\* image frame whose image is empty or absent.
C9_NoDetectionDefault ==
  /\ []((http_track.called /\ http_track.frame.image \in {"absent", "empty"}) =>
          NotDetected(http_track.response))
  /\ [][\A c \in Conns : \A m \in Inbound :
          (Reads(c, m) /\ EmptyOrAbsentImage(m) /\ alive[c]) =>
            /\ Len(received'[c]) = Len(received[c]) + 1
            /\ Last(received'[c]).type = "tracking_result"
            /\ NotDetected(Last(received'[c]).result)]_vars

\* The handler has just answered a frame without an image with the "not
\* detected" result.
C9_Witness ==
  \E c \in Conns :
    /\ frame_read.conn = c
    /\ EmptyOrAbsentImage(frame_read.msg)
    /\ received[c] # <<>>
    /\ Last(received[c]).type = "tracking_result"
    /\ NotDetected(Last(received[c]).result)

\* C10 (joint-angle length matches the configured robot): every
\* tracking_result with hand_detected = true that reports a robot of the
\* catalog has as many joint angles as that robot has degrees of freedom.
C10_JointAngleLength ==
  \A c \in Conns : \A i \in 1..Len(received[c]) :
    LET r == received[c][i].result IN
      (received[c][i].type = "tracking_result" /\ r.hand_detected
         /\ r.robot_type \in DOMAIN RobotCatalog) =>
        Len(r.joint_angles) = RobotCatalog[r.robot_type]

\* A complete configuration that the store was given: the default one or
\* the one submitted by a set_robot_config request already made
Whole(cfg) ==
  \/ cfg = DefaultConfig
  \/ \E s \in Calls : calls[s].pc # "idle" /\ calls[s].config = cfg

\* C11 (config atomicity): the store always holds the default configuration
\* or the complete configuration of an earlier set_robot_config call, and so
\* does every config and config_update message a client has received; the
\* robot_type of every tracking result is that of such a configuration.
C11_ConfigAtomicity ==
  /\ Whole(current_robot_config)
  /\ \A c \in Conns : \A i \in 1..Len(received[c]) :
       LET m == received[c][i] IN
         /\ m.type \in {"config", "config_update"} => Whole(m.config)
         /\ m.type = "tracking_result" =>
              \E cfg \in Requests \cup {DefaultConfig} :
                Whole(cfg) /\ m.result.robot_type = cfg.robot_type

\* Two set_robot_config calls with different configurations overlap (the
\* first is still broadcasting when the second has replaced the store) and
\* a client has received the config_update of both.
C11_Witness ==
  /\ calls[1].pc = "sending"
  /\ calls[2].pc # "idle"
  /\ calls[1].config # calls[2].config
  /\ current_robot_config = calls[2].config
  /\ \E c \in Conns :
       /\ InList(ConfigUpdateMsg(calls[1].config), received[c])
       /\ InList(ConfigUpdateMsg(calls[2].config), received[c])

\* C12 (set returns what it accepted): the robot_config that a
\* set_robot_config call returns is the configuration submitted in that
\* call, whatever other requests replaced the store during its broadcast.
C12_SetReturnsAccepted ==
  \A s \in Calls : calls[s].pc = "done" => calls[s].result = calls[s].config

\* A subscriber the fan-out should serve: registered, handler open, peer
\* there and reading
Healthy(c) ==
  /\ InList(c, websocket_connections)
  /\ Open(c)
  /\ alive[c]
  /\ c \notin stalled

\* C13 (fan-out does not block the caller): every set_robot_config call
\* that has started its broadcast eventually returns, and every healthy
\* subscriber registered during the broadcast eventually has the
\* config_update of that call (or stops being healthy), also when the send
\* to some registered connection never completes.
C13_FanOutDoesNotBlock ==
  /\ \A s \in Calls : (calls[s].pc = "sending") ~> (calls[s].pc = "done")
  /\ \A s \in Calls : \A c \in Conns :
       (calls[s].pc = "sending" /\ Healthy(c)) ~>
         (InList(ConfigUpdateMsg(calls[s].config), received[c]) \/ ~Healthy(c))

\* Number of times the handle c is in the list
Count(c, list) == Cardinality({i \in 1..Len(list) : list[i] = c})

\* The step in which the handler of c runs its finally block and ends
Closes(c) == pc[c] # "closed" /\ pc'[c] = "closed"

StreamCall(c) ==
  /\ FrameRead(c)
  /\ frame_read'.conn = c
  /\ Dispatch(frame_read'.msg) \in {"track", "image"}

\* The handler of c called process_hand_tracking in the step before, on
\* the payload frame, and sent the result
StreamCalled(c, frame) ==
  /\ frame_read.conn = c
  /\ Dispatch(frame_read.msg) = "track"
  /\ TrackFrame(frame_read.msg) = frame
  /\ received[c] # <<>>
  /\ Last(received[c]).type = "tracking_result"

\* A call of process_hand_tracking, direct or from a handler, leaves the
\* sessions, the registry and the store as they are.  (A handler whose call
\* raises ends in the same step, and its finally block takes its own handle
\* out of the registry.)
CallLeavesState ==
  /\ http_track'.called =>
       UNCHANGED <<active_sessions, websocket_connections, current_robot_config>>
  /\ \A c \in Conns :
       StreamCall(c) =>
         /\ UNCHANGED <<active_sessions, current_robot_config>>
         /\ websocket_connections' =
              IF Closes(c) THEN Unregister(websocket_connections, c)
              ELSE websocket_connections

SameButTimestamp(r1, r2) ==
  [r1 EXCEPT !.timestamp = 0] = [r2 EXCEPT !.timestamp = 0]

\* C15 (one-shot frame processing is stateless), as claimed: a call leaves
\* the sessions, the registry and the store unchanged, and two calls on the
\* same payload under the same configuration, direct or from a handler,
\* give the same result.
C15_Stateless ==
  [][/\ CallLeavesState
     /\ (http_track.called /\ http_track'.called
           /\ http_track'.frame = http_track.frame) =>
          http_track'.response = http_track.response
     /\ \A c \in Conns :
          (http_track'.called /\ StreamCalled(c, http_track'.frame)) =>
            http_track'.response = Last(received[c]).result]_vars

\* C15, amended: a call leaves the sessions, the registry and the store
\* unchanged, and two calls on the same payload under the same
\* configuration, direct or from a handler, give results that differ at
\* most in their timestamp.
C15_StatelessButTimestamp ==
  [][/\ CallLeavesState
     /\ (http_track.called /\ http_track'.called
           /\ http_track'.frame = http_track.frame) =>
          SameButTimestamp(http_track'.response, http_track.response)
     /\ \A c \in Conns :
          (http_track'.called /\ StreamCalled(c, http_track'.frame)) =>
            SameButTimestamp(http_track'.response, Last(received[c]).result)]_vars

\* A direct call has answered, with connections registered and the store
\* replaced, what a handler answered on the same payload, at another time.
C15_Witness ==
  /\ http_track.called
  /\ current_robot_config # DefaultConfig
  /\ \E c \in Conns :
       /\ InList(c, websocket_connections)
       /\ received[c] # <<>>
       /\ Last(received[c]).type = "tracking_result"
       /\ Last(received[c]).result.timestamp # http_track.response.timestamp
       /\ SameButTimestamp(Last(received[c]).result, http_track.response)

\* C16 (no duplicate registration): websocket_connections holds each
\* connection at most once.
C16_NoDuplicateRegistration ==
  \A c \in Conns : Count(c, websocket_connections) <= 1

\* C17 (healthy subscribers are never dropped): a connection whose handler
\* is open and to which no send has failed (its peer has been there all
\* along) is in websocket_connections.
C17_HealthyNeverDropped ==
  \A c \in Conns : (Open(c) /\ alive[c]) => InList(c, websocket_connections)

\* The positions of the config and config_update messages in a stream
ConfigPositions(stream) ==
  {i \in 1..Len(stream) : stream[i].type \in {"config", "config_update"}}

\* The configuration a client holds: that of the last config or
\* config_update message of its stream
LastConfig(stream) ==
  LET i == CHOOSE k \in ConfigPositions(stream) :
             \A j \in ConfigPositions(stream) : j <= k
  IN stream[i].config

\* C18 (per-connection config ordering and convergence): no client
\* receives the config_update of a set_robot_config call after that of a
\* later call (requests are numbered in the order in which they replace the
\* store), and once no broadcast is in progress the last config or
\* config_update message that the client of every registered connection
\* with a live peer has received carries the configuration in the store.
C18_ConfigOrderAndConvergence ==
  /\ \A c \in Conns : \A s, t \in Calls :
       (s < t /\ calls[t].pc # "idle" /\ calls[s].config # calls[t].config) =>
         \A i, j \in 1..Len(received[c]) :
           (received[c][i] = ConfigUpdateMsg(calls[t].config)
              /\ received[c][j] = ConfigUpdateMsg(calls[s].config)) => j < i
  /\ (\A s \in Calls : calls[s].pc # "sending") =>
       \A c \in Conns :
         (InList(c, websocket_connections) /\ alive[c]
            /\ ConfigPositions(received[c]) # {}) =>
           LastConfig(received[c]) = current_robot_config

\* The step in which the request s is made
SetStarts(s) == calls[s].pc = "idle" /\ calls'[s].pc # "idle"

\* C19 (broadcast carries the triggering value): a set_robot_config call
\* made on an empty registry sends nothing and returns; made on a non-empty
\* one it starts its broadcast, once, with a config_update message that
\* carries the configuration it submitted and stored; the message stays
\* that one whatever later calls store, and every config_update that
\* reaches a client is the message of the call whose broadcast sent it.
C19_BroadcastCarriesTrigger ==
  [][/\ \A s \in Calls :
          /\ SetStarts(s) =>
               /\ calls'[s].config = current_robot_config'
               /\ IF websocket_connections = <<>>
                    THEN calls'[s].pc = "done" /\ received' = received
                    ELSE /\ calls'[s].pc = "sending"
                         /\ calls'[s].message = ConfigUpdateMsg(calls'[s].config)
          /\ calls[s].pc = "sending" =>
               /\ calls'[s].pc \in {"sending", "done"}
               /\ calls'[s].message = calls[s].message
               /\ calls'[s].config = calls[s].config
          /\ calls[s].pc = "done" => calls'[s].pc = "done"
     /\ \A c \in Conns :
          (received'[c] # received[c]
             /\ Last(received'[c]).type = "config_update") =>
            \E s \in Calls :
              /\ calls'[s] # calls[s]
              /\ calls'[s].pc # "idle"
              /\ received'[c] =
                   Append(received[c], ConfigUpdateMsg(calls'[s].config))]_vars

\* The broadcast of the first call has delivered its own configuration to
\* a client after a second call had replaced the store and reached that
\* client.
C19_Witness ==
  \E c \in Conns :
    /\ Len(received[c]) >= 2
    /\ calls[1].pc # "idle"
    /\ calls[2].pc # "idle"
    /\ calls[1].config # calls[2].config
    /\ current_robot_config = calls[2].config
    /\ Last(received[c]) = ConfigUpdateMsg(calls[1].config)
    /\ received[c][Len(received[c]) - 1] = ConfigUpdateMsg(calls[2].config)

\* A frame that asks for a reply
IsRequest(m) == m.json = "object" /\ m.type \in {"ping", "track", "image"}

\* The type of the reply to a request
ReplyType(m) == IF m.type = "ping" THEN "pong" ELSE "tracking_result"

\* C20 (replies in request order): the step in which a handler reads a
\* ping, track or image frame (its peer being there) adds the one reply to
\* that frame to its own client's stream, before the handler reads the next
\* frame, and adds nothing to any other stream; and every pong or
\* tracking_result that reaches a client is added in such a step.
C20_RepliesInRequestOrder ==
  [][\A c \in Conns :
       /\ \A m \in Inbound :
            (Reads(c, m) /\ IsRequest(m) /\ alive[c]) =>
              /\ Len(received'[c]) = Len(received[c]) + 1
              /\ SubSeq(received'[c], 1, Len(received[c])) = received[c]
              /\ Last(received'[c]).type = ReplyType(m)
              /\ pc'[c] = "send_reply"
              /\ \A d \in Conns \ {c} : received'[d] = received[d]
       /\ (received'[c] # received[c]
             /\ Last(received'[c]).type \in {"pong", "tracking_result"}) =>
            /\ FrameRead(c)
            /\ frame_read'.conn = c
            /\ IsRequest(frame_read'.msg)
            /\ Last(received'[c]).type = ReplyType(frame_read'.msg)]_vars

====
